---- MODULE Spec2Model ----
(***************************************************************************)
(* The goof3 compiler: semantic checks (src/semantics/check.js), the       *)
(* analyzer (src/semantics/analyzer.js) and the JavaScript generator       *)
(* (src/codegen/javascript-generator.js).                                  *)
(*                                                                         *)
(* A program is a sequence of AST nodes.  A node is a record whose `kind`  *)
(* is its constructor and whose other fields are the syntax-determined     *)
(* properties the analyzer and the generator read.  A node's identity is   *)
(* its path: <<i>> for the i-th statement, p \o <<slot>> or                *)
(* p \o <<slot, j>> for a child.  Properties that analysis assigns (type,  *)
(* reference, callee, ObjContext, bodyContext) are kept in maps keyed by   *)
(* path.                                                                   *)
(***************************************************************************)
EXTENDS Integers, Sequences, FiniteSets, TLC

VARIABLES
    prog,      \* the AST handed to the analyzer and then to the generator
    phase,     \* "analyze" | "generate"
    pc,        \* index of the next statement to analyze / generate
    ctxs,      \* the Context objects created so far (index = identity)
    types,     \* path -> value of the node's `type` property once assigned
    refs,      \* path -> declaration an IdExp.reference / CallExpression.callee holds
    octx,      \* path -> Context held as ObjContext / bodyContext
    ents,      \* path -> declaration node, for every declaration bound in a Context
    errs,      \* the errors thrown by analysis, each with the clock at the throw
    clock,     \* number of analysis events (visit, attach, create, add) so far
    seen,      \* the nodes whose analyze was entered
    lastId,    \* javaScriptId's counter
    idmap,     \* javaScriptId's cache: entity (path) -> number
    rendered,  \* the identifiers emitted so far: [site, entity, decl, text]
    gerr,      \* the error thrown by generation, or NoError
    chk        \* input and result of a direct call of a check.js predicate

vars == <<prog, phase, pc, ctxs, types, refs, octx, ents, errs, clock, seen,
          lastId, idmap, rendered, gerr, chk>>

(***************************************************************************)
(* Bounds                                                                  *)
(***************************************************************************)
MaxArgs == 2

(***************************************************************************)
(* Values                                                                  *)
(***************************************************************************)
NoError == "none"
TypeError == "TypeError"
ReferenceError == "ReferenceError"

\* A value that can sit in a `type` property: a builtin type object, a
\* string, an ArrayType or RecordType instance, or undefined.  `k` is the
\* value's constructor, `n` tells instances apart (=== is identity).
Undefined == [k |-> "undefined", n |-> ""]
Str(s) == [k |-> "String", n |-> s]
IntType == [k |-> "PrimitiveType", n |-> "int"]
FloatType == [k |-> "PrimitiveType", n |-> "float"]
StringType == [k |-> "PrimitiveType", n |-> "string"]
BoolType == [k |-> "PrimitiveType", n |-> "bool"]
NullType == [k |-> "PrimitiveType", n |-> "null"]
RecordTypeOf(l) == [k |-> "RecordType", n |-> l]
\* an ArrayType node: its own `type` property is the element type it was parsed with
ArrayTypeOf(l, elem) == [k |-> "ArrayType", n |-> l, type |-> elem]
\* the class ArrayType itself (a function object), as check.js compares with it
ArrayTypeClass == [k |-> "Function", n |-> "ArrayType"]

PrimitiveTypes == {IntType, FloatType, StringType, BoolType, NullType}
RecordTypes == {RecordTypeOf("R1"), RecordTypeOf("R2")}
ArrayTypes == {ArrayTypeOf("A1", Str("whole_number")), ArrayTypeOf("A2", Str("whole_number"))}
Types == PrimitiveTypes \cup RecordTypes \cup ArrayTypes \cup {Str("object")}

getType(typeString) ==
    CASE typeString = Str("array_of_chars") -> StringType
      [] typeString = Str("whole_number") -> IntType
      [] typeString = Str("not_whole_number") -> FloatType
      [] typeString = Str("true_or_false") -> BoolType
      [] typeString = Str("temp") -> NullType
      [] OTHER -> typeString

(***************************************************************************)
(* check.js.  A predicate yields NoError when it passes and the message    *)
(* of the Error it throws otherwise.                                       *)
(***************************************************************************)
doCheck(condition, message) == IF condition THEN NoError ELSE message

\* the properties of the object check.js exports
CheckExports ==
    {"isArray", "isArrayType", "isInteger", "isNumber", "isString",
     "isIntegerOrString", "isFunction", "expressionsHaveTheSameType",
     "isAssignableTo", "isNotReadOnly", "fieldHasNotBeenUsed",
     "legalArguments", "noRecursiveTypeCyclesWithoutRecordTypes"}

\* check.<name>(...): calling a property the object does not have throws
\* a TypeError before any condition is looked at
CallCheck(name, result) == IF name \in CheckExports THEN result ELSE TypeError

isArray(etype) == doCheck(etype = ArrayTypeClass, "undefined")
isArrayType(ttype) == doCheck(ttype = ArrayTypeClass, "Not an array type")
isInteger(etype) == doCheck(etype = IntType, "Not an integer")
isNumber(etype) == doCheck(etype = IntType \/ etype = FloatType, "Not a number")
isString(etype) == doCheck(etype = StringType, "Not a string")
isFunction(constructor) == doCheck(constructor = "Func", "Not a function")
expressionsHaveTheSameType(t1, t2) == doCheck(t1 = t2, "Types must match exactly")

isAssignableToNoNull(etype, type) == doCheck(etype = type, "not compatible")

isAssignableTo(etype, type) ==
    doCheck((etype = NullType /\ type.k = "RecordType") \/ etype = type,
            "not compatible")

RECURSIVE legalArgumentsFrom(_, _, _)
legalArgumentsFrom(argTypes, paramTypes, i) ==
    IF i > Len(argTypes) THEN NoError
    ELSE LET r == isAssignableTo(argTypes[i], paramTypes[i])
         IN IF r # NoError THEN r ELSE legalArgumentsFrom(argTypes, paramTypes, i + 1)

legalArgumentsTypesFirst(argTypes, paramTypes) ==
    LET n == IF Len(argTypes) < Len(paramTypes) THEN Len(argTypes) ELSE Len(paramTypes)
        bad == {i \in 1..n : isAssignableTo(argTypes[i], paramTypes[i]) # NoError}
    IN IF bad # {} THEN "not compatible"
       ELSE doCheck(Len(argTypes) = Len(paramTypes), "arity")

legalArguments(argTypes, paramTypes) ==
    LET r == doCheck(Len(argTypes) = Len(paramTypes), "arity")
    IN IF r # NoError THEN r ELSE legalArgumentsFrom(argTypes, paramTypes, 1)

\* check.isBoolean and check.isAssignment are called by the analyzer
isBoolean(etype) == CallCheck("isBoolean", doCheck(etype = BoolType, "Not a boolean"))
isAssignment(kind) ==
    CallCheck("isAssignment", doCheck(kind = "AssignmentStatement", "Not an assignment"))

(***************************************************************************)
(* The state one analysis threads through the handlers.                    *)
(***************************************************************************)
Tick(st) == [st EXCEPT !.clock = @ + 1]
Throw(st, message) == [st EXCEPT !.errs = Append(@, [msg |-> message, at |-> st.clock])]
Raised(st) == st.errs # <<>>
Check(st, result) == IF result = NoError THEN st ELSE Throw(st, result)

\* node.analyze(...) was entered
Visit(st, p) == Tick([st EXCEPT !.seen = @ \cup {p}])

\* the value of node.type: what analysis assigned, else what the parser put there
TypeOf(st, p, n) ==
    IF p \in DOMAIN st.types THEN st.types[p]
    ELSE IF "type" \in DOMAIN n THEN n.type ELSE Undefined

SetType(st, p, t) == Tick([st EXCEPT !.types = (p :> t) @@ @])
SetRef(st, p, d) == Tick([st EXCEPT !.refs = (p :> d) @@ @])
SetCtx(st, p, c) == Tick([st EXCEPT !.octx = (p :> c) @@ @])

(***************************************************************************)
(* Context (symbol table).  A Context is [parent, kind, owner, decls];     *)
(* decls lists the bindings [id, decl] in insertion order; parent 0 is     *)
(* no parent, and Context 0 stands for `undefined` passed as the context.  *)
(***************************************************************************)
NoDecl == <<>>

Bound(ctx, id) == \E i \in 1..Len(ctx.decls) : ctx.decls[i].id = id

DeclIn(ctx, id) ==
    ctx.decls[CHOOSE i \in 1..Len(ctx.decls) : ctx.decls[i].id = id].decl

RECURSIVE lookupValue(_, _, _)
lookupValue(cs, c, id) ==
    IF c = 0 THEN NoDecl
    ELSE IF Bound(cs[c], id) THEN DeclIn(cs[c], id)
    ELSE lookupValue(cs, cs[c].parent, id)

\* context.add(decl)
add(st, c, p, n) ==
    IF c = 0 THEN Throw(st, TypeError)
    ELSE IF Bound(st.ctxs[c], n.id) THEN Throw(st, "DuplicateDeclaration")
    ELSE Tick([st EXCEPT !.ctxs[c].decls = Append(@, [id |-> n.id, decl |-> p]),
                         !.ents = (p :> n) @@ @])

\* context.createChildContextFor...(): the new Context is the last of st.ctxs
createChildContext(st, c, kind, owner) ==
    IF c = 0 THEN Throw(st, TypeError)
    ELSE Tick([st EXCEPT !.ctxs = Append(@, [parent |-> c, kind |-> kind,
                                              owner |-> owner, decls |-> <<>>])])

createChildContextForLoop(st, c) == createChildContext(st, c, "loop", NoDecl)
createChildContextForFunctionBody(st, c, owner) == createChildContext(st, c, "function", owner)
createChildContextForObject(st, c) == createChildContext(st, c, "object", NoDecl)

(***************************************************************************)
(* analyzer.js.  Handler(n, p, c, st): node n at path p analyzed with      *)
(* Context c from state st; the result is the state after the handler      *)
(* returned or threw.                                                      *)
(***************************************************************************)
RECURSIVE Analyze(_, _, _, _)

\* a forEach that would go on after an element's analyze has thrown
RECURSIVE AnalyzeAllPastFailure(_, _, _, _, _)
AnalyzeAllPastFailure(ns, base, i, c, st) ==
    IF i > Len(ns) THEN st
    ELSE AnalyzeAllPastFailure(ns, base, i + 1, c, Analyze(ns[i], base \o <<i>>, c, st))

\* list.forEach(e => e.analyze(context)), from element i on
RECURSIVE AnalyzeAll(_, _, _, _, _)
AnalyzeAll(ns, base, i, c, st) ==
    IF i > Len(ns) \/ Raised(st) THEN st
    ELSE AnalyzeAll(ns, base, i + 1, c, Analyze(ns[i], base \o <<i>>, c, st))

\* an operator is the sequence of its characters, so that the regular
\* expressions of BinaryExpression.prototype.analyze can be applied to it
HasChar(op, chars) == \E i \in 1..Len(op) : op[i] \in chars
HasPair(op, a) == \E i \in 1..(Len(op) - 1) : op[i] = a /\ op[i + 1] = a
ReArithmetic(op) == HasChar(op, {"-", "+", "*", "/"})          \* /[-+*/]/
ReRelational(op) == HasChar(op, {"<", ">"})                    \* /[<>]/
ReLogical(op) == HasPair(op, "|") \/ HasPair(op, "&")          \* /\|\||&&/
ReEquality(op) == Len(op) > 0 /\ op[1] \in {"!", "="}          \* /^[!=]/

\* the first failing check of a list of check results is the one thrown
RECURSIVE FirstFailure(_, _)
FirstFailure(results, i) ==
    IF i > Len(results) THEN NoError
    ELSE IF results[i] # NoError THEN results[i] ELSE FirstFailure(results, i + 1)

Checks(st, results) == Check(st, FirstFailure(results, 1))

ArrayType_analyze(t, st) ==
    LET s1 == Check(Tick(st), isArrayType(t.type))
    IN s1 \* this.type = getType(this.type) changes the ArrayType object only if the check passed

ArrayExpression_analyze(n, p, c, st) ==
    LET s0 == Visit(st, p)
        s1 == ArrayType_analyze(n.type, s0)
        s2 == IF Raised(s1) THEN s1 ELSE Check(s1, isArray(TypeOf(s1, p, n)))
        s3 == IF Raised(s2) THEN s2 ELSE Analyze(n.size, p \o <<2>>, 0, s2)
        s4 == IF Raised(s3) THEN s3 ELSE Check(s3, isInteger(TypeOf(s3, p \o <<2>>, n.size)))
        elems[i \in 1..(Len(n.elements) + 1)] ==
            IF i = 1 THEN s4
            ELSE IF Raised(elems[i - 1]) THEN elems[i - 1]
            ELSE LET e == n.elements[i - 1]
                     q == p \o <<3, i - 1>>
                     a == Analyze(e, q, 0, elems[i - 1])
                 IN IF Raised(a) THEN a
                    ELSE Check(a, isAssignableTo(TypeOf(a, q, e), n.type.type))
    IN elems[Len(n.elements) + 1]

isNotReadOnly(lvalue) ==
    IF lvalue.kind # "IdExp" THEN NoError
    ELSE IF "ref" \notin DOMAIN lvalue THEN TypeError   \* undefined.readOnly
    ELSE doCheck(~lvalue.ref.readOnly, "Assignment to read-only variable")

AssignmentStatement_analyze(n, p, c, st) ==
    LET s0 == Visit(st, p)
        s1 == Analyze(n.source, p \o <<1>>, c, s0)
        s2 == IF Raised(s1) THEN s1 ELSE Analyze(n.target, p \o <<2>>, c, s1)
    IN IF Raised(s2) THEN s2
       ELSE Checks(s2, <<isAssignableTo(TypeOf(s2, p \o <<1>>, n.source),
                                        TypeOf(s2, p \o <<2>>, n.target)),
                         isNotReadOnly(n.target)>>)

BinaryExpression_analyze(n, p, c, st) ==
    LET s0 == Visit(st, p)
        s1 == Analyze(n.left, p \o <<1>>, c, s0)
        s2 == IF Raised(s1) THEN s1 ELSE Analyze(n.right, p \o <<2>>, c, s1)
        lt == TypeOf(s2, p \o <<1>>, n.left)
        rt == TypeOf(s2, p \o <<2>>, n.right)
    IN IF Raised(s2) THEN s2
       ELSE IF ReArithmetic(n.op) THEN
            LET s3 == Checks(s2, <<isNumber(lt), isNumber(rt)>>)
            IN IF Raised(s3) THEN s3
               ELSE SetType(s3, p, IF lt = FloatType \/ rt = FloatType
                                   THEN FloatType ELSE IntType)
       ELSE IF ReRelational(n.op) THEN
            LET s3 == Checks(s2, <<isNumber(lt), isNumber(rt)>>)
            IN IF Raised(s3) THEN s3 ELSE SetType(s3, p, BoolType)
       ELSE IF ReLogical(n.op) THEN
            LET s3 == Checks(s2, <<isBoolean(lt), isBoolean(rt)>>)
            IN IF Raised(s3) THEN s3 ELSE SetType(s3, p, BoolType)
       ELSE IF ReEquality(n.op) THEN
            LET s3 == Check(s2, expressionsHaveTheSameType(lt, rt))
            IN IF Raised(s3) THEN s3 ELSE SetType(s3, p, BoolType)
       ELSE s2

CallExpression_analyze(n, p, c, st) ==
    LET s0 == Visit(st, p)
        d == lookupValue(s0.ctxs, c, n.callee)
    IN IF c = 0 THEN Throw(s0, TypeError)
       ELSE IF d = NoDecl THEN Throw(s0, "UndeclaredIdentifier")
       ELSE LET s1 == SetRef(s0, p, d)
                callee == s1.ents[d]
                s2 == Check(s1, isFunction(callee.kind))
                s3 == IF Raised(s2) THEN s2 ELSE AnalyzeAll(n.args, p \o <<1>>, 1, c, s2)
                argTypes == [i \in 1..Len(n.args) |-> TypeOf(s3, p \o <<1, i>>, n.args[i])]
                paramTypes == [i \in 1..Len(callee.parameters) |->
                                  TypeOf(s3, d \o <<1, i>>, callee.parameters[i])]
            IN IF Raised(s3) THEN s3
               ELSE Check(s3, legalArguments(argTypes, paramTypes))

Field_analyze(n, p, c, st) ==
    LET s0 == Visit(st, p)
        s1 == SetType(s0, p, getType(TypeOf(s0, p, n)))
        s2 == Analyze(n.value, p \o <<1>>, c, s1)
        s3 == IF Raised(s2) THEN s2
              ELSE Check(s2, isAssignableTo(TypeOf(s2, p \o <<1>>, n.value),
                                            TypeOf(s2, p, n)))
    IN IF Raised(s3) THEN s3 ELSE add(s3, c, p, n)

ForStatement_analyze(n, p, c, st) ==
    LET s0 == createChildContextForLoop(Visit(st, p), c)
        loopContext == Len(s0.ctxs)
        s1 == IF Raised(s0) THEN s0
              ELSE AnalyzeAll(n.assignments, p \o <<1>>, 1, loopContext, s0)
        s2 == IF Raised(s1) THEN s1 ELSE Analyze(n.test, p \o <<2>>, loopContext, s1)
        s3 == IF Raised(s2) THEN s2
              ELSE Check(s2, isBoolean(TypeOf(s2, p \o <<2>>, n.test)))
        s4 == IF Raised(s3) THEN s3 ELSE Analyze(n.action, p \o <<3>>, loopContext, s3)
        s5 == IF Raised(s4) THEN s4 ELSE Check(s4, isAssignment(n.action.kind))
    IN IF Raised(s5) THEN s5 ELSE AnalyzeAll(n.body, p \o <<4>>, 1, loopContext, s5)

\* Func.prototype.analyzeSignature and Method.prototype.analyzeSignature
analyzeSignature(n, p, c, st) ==
    LET s0 == createChildContextForFunctionBody(st, c, p)
        bodyContext == Len(s0.ctxs)
        s1 == IF Raised(s0) THEN s0 ELSE SetCtx(s0, p, bodyContext)
        s2 == IF Raised(s1) THEN s1
              ELSE AnalyzeAll(n.parameters, p \o <<1>>, 1, bodyContext, s1)
    IN IF Raised(s2) THEN s2 ELSE add(s2, c, p, n)

\* Func.prototype.analyze and Method.prototype.analyze
Func_analyze(n, p, c, st) ==
    LET s1 == analyzeSignature(n, p, c, Visit(st, p))
    IN IF Raised(s1) THEN s1
       ELSE AnalyzeAll(n.body, p \o <<2>>, 1, s1.octx[p], s1)

GifStatement_analyze(n, p, c, st) ==
    LET s0 == Visit(st, p)
        tests[i \in 1..(Len(n.tests) + 1)] ==
            IF i = 1 THEN s0
            ELSE IF Raised(tests[i - 1]) THEN tests[i - 1]
            ELSE LET q == p \o <<1, i - 1>>
                     a == Analyze(n.tests[i - 1], q, c, tests[i - 1])
                 IN IF Raised(a) THEN a
                    ELSE Check(a, isBoolean(TypeOf(a, q, n.tests[i - 1])))
        s1 == tests[Len(n.tests) + 1]
        cons[j \in 1..(Len(n.consequents) + 1)] ==
            IF j = 1 THEN s1
            ELSE AnalyzeAll(n.consequents[j - 1], p \o <<2, j - 1>>, 1, c, cons[j - 1])
        s2 == cons[Len(n.consequents) + 1]
    IN IF Raised(s2) \/ "alternate" \notin DOMAIN n THEN s2
       ELSE IF n.alternate = <<>> THEN Throw(s2, TypeError)   \* undefined.analyze
       ELSE Analyze(n.alternate[1], p \o <<3, 1>>, c, s2)

\* IdExp.prototype.analyze on an IdExp whose reference is the name `id`
IdExp_resolve(id, p, c, st) ==
    LET s0 == Visit(st, p)
        d == lookupValue(s0.ctxs, c, id)
    IN IF c = 0 THEN Throw(s0, TypeError)
       ELSE IF d = NoDecl THEN Throw(s0, "UndeclaredIdentifier")
       ELSE SetType(SetRef(s0, p, d), p, TypeOf(s0, d, s0.ents[d]))

IdExp_analyze(n, p, c, st) == IdExp_resolve(n.reference, p, c, st)

Literal_analyze(n, p, c, st) ==
    LET s0 == Visit(st, p)
    IN SetType(s0, p, getType(TypeOf(s0, p, n)))

MemberExpression_analyze(n, p, c, st) ==
    LET s0 == Visit(st, p)
        s1 == Analyze(n.object, p \o <<1>>, c, s0)
        o == p \o <<1>>
    IN IF Raised(s1) THEN s1
       ELSE IF n.object.kind # "IdExp" THEN Throw(s1, TypeError)   \* undefined.type
       ELSE LET d == s1.refs[o]
                decl == s1.ents[d]
                rt == TypeOf(s1, d, decl)
            IN IF rt.k = "ArrayType" THEN
                    IF n.property.kind = "Name" THEN Throw(s1, TypeError)  \* "f".analyze
                    ELSE LET s2 == Analyze(n.property, p \o <<2>>, c, s1)
                             s3 == IF Raised(s2) THEN s2
                                   ELSE Check(s2, isInteger(TypeOf(s2, p \o <<2>>, n.property)))
                         IN IF Raised(s3) THEN s3
                            ELSE SetType(s3, p, TypeOf(s3, p \o <<2>>, n.property))
               ELSE IF rt = Str("object") THEN
                    IF "initializer" \notin DOMAIN decl THEN Throw(s1, TypeError)
                    ELSE LET oc == IF (d \o <<2>>) \in DOMAIN s1.octx
                                   THEN s1.octx[d \o <<2>>] ELSE 0
                             id == IF n.property.kind = "Name" THEN n.property.id ELSE ""
                             s2 == IdExp_resolve(id, p \o <<2>>, oc, s1)
                         IN IF Raised(s2) THEN s2
                            ELSE SetType(s2, p, TypeOf(s2, p \o <<2>>, n.property))
               ELSE Throw(s1, "Non subscriptable expression")

ObjectExp_analyze(n, p, c, st) ==
    LET s0 == createChildContextForObject(Visit(st, p), c)
        ObjContext == Len(s0.ctxs)
    IN IF Raised(s0) THEN s0
       ELSE AnalyzeAll(n.properties, p \o <<1>>, 1, ObjContext, SetCtx(s0, p, ObjContext))

Parameter_analyze(n, p, c, st) ==
    LET s0 == Visit(st, p)
        s1 == SetType(s0, p, getType(TypeOf(s0, p, n)))
    IN add(s1, c, p, n)

ReturnStatement_analyze(n, p, c, st) ==
    Analyze(n.returnValue, p \o <<1>>, c, Visit(st, p))

ThrowStatement_analyze(n, p, c, st) ==
    LET s1 == Analyze(n.error, p \o <<1>>, 0, Visit(st, p))
    IN IF Raised(s1) THEN s1
       ELSE Check(s1, isString(TypeOf(s1, p \o <<1>>, n.error)))

VariableDeclaration_analyze(n, p, c, st) ==
    LET s0 == Visit(st, p)
        s1 == IF n.type.k = "ArrayType" THEN ArrayType_analyze(n.type, s0)
              ELSE SetType(s0, p, getType(TypeOf(s0, p, n)))
        s2 == IF Raised(s1) \/ "initializer" \notin DOMAIN n THEN s1
              ELSE Analyze(n.initializer, p \o <<2>>, c, s1)
        s3 == IF Raised(s2) \/ "initializer" \notin DOMAIN n THEN s2
              ELSE Check(s2, isAssignableTo(TypeOf(s2, p \o <<2>>, n.initializer),
                                            TypeOf(s2, p, n)))
    IN IF Raised(s3) THEN s3 ELSE add(s3, c, p, n)

WhileStatement_analyze(n, p, c, st) ==
    LET s0 == createChildContextForLoop(Visit(st, p), c)
        loopContext == Len(s0.ctxs)
        s1 == IF Raised(s0) THEN s0 ELSE Analyze(n.test, p \o <<1>>, loopContext, s0)
        s2 == IF Raised(s1) THEN s1
              ELSE Check(s1, isBoolean(TypeOf(s1, p \o <<1>>, n.test)))
    IN IF Raised(s2) THEN s2 ELSE AnalyzeAll(n.body, p \o <<2>>, 1, loopContext, s2)

\* node.analyze(context): dispatch on the node's constructor
Analyze(n, p, c, st) ==
    CASE n.kind = "ArrayExpression" -> ArrayExpression_analyze(n, p, c, st)
      [] n.kind = "AssignmentStatement" -> AssignmentStatement_analyze(n, p, c, st)
      [] n.kind = "BinaryExpression" -> BinaryExpression_analyze(n, p, c, st)
      [] n.kind = "CallExpression" -> CallExpression_analyze(n, p, c, st)
      [] n.kind = "Field" -> Field_analyze(n, p, c, st)
      [] n.kind = "ForStatement" -> ForStatement_analyze(n, p, c, st)
      [] n.kind = "Func" -> Func_analyze(n, p, c, st)
      [] n.kind = "Method" -> Func_analyze(n, p, c, st)
      [] n.kind = "GifStatement" -> GifStatement_analyze(n, p, c, st)
      [] n.kind = "IdExp" -> IdExp_analyze(n, p, c, st)
      [] n.kind = "Literal" -> Literal_analyze(n, p, c, st)
      [] n.kind = "MemberExpression" -> MemberExpression_analyze(n, p, c, st)
      [] n.kind = "ObjectExp" -> ObjectExp_analyze(n, p, c, st)
      [] n.kind = "Parameter" -> Parameter_analyze(n, p, c, st)
      [] n.kind = "ReturnStatement" -> ReturnStatement_analyze(n, p, c, st)
      [] n.kind = "ThrowStatement" -> ThrowStatement_analyze(n, p, c, st)
      [] n.kind = "VariableDeclaration" -> VariableDeclaration_analyze(n, p, c, st)
      [] n.kind = "WhileStatement" -> WhileStatement_analyze(n, p, c, st)
      [] OTHER -> Throw(st, TypeError)

(***************************************************************************)
(* javascript-generator.js.  Gen(n, p, gs): node n at path p generated     *)
(* from generator state gs = [lastId, idmap, rendered, gerr]; the text     *)
(* fragments are represented by the identifiers emitted into them.         *)
(***************************************************************************)
GRaised(gs) == gs.gerr # NoError
GThrow(gs, e) == [gs EXCEPT !.gerr = e]

\* the `id` property of an entity; undefined prints as "undefined"
IdOf(n) == IF "id" \in DOMAIN n THEN n.id ELSE "undefined"

\* javaScriptId(v) called at node `site`, whose text stands for declaration
\* `decl` (NoDecl when it stands for none); v is the entity, id its v.id
javaScriptId(gs, v, id, site, decl) ==
    LET g1 == IF v \in DOMAIN gs.idmap THEN gs
              ELSE [gs EXCEPT !.lastId = @ + 1, !.idmap = (v :> (gs.lastId + 1)) @@ @]
    IN [g1 EXCEPT !.rendered = @ \cup {[site |-> site, entity |-> v, decl |-> decl,
                                         text |-> <<id, g1.idmap[v]>>]}]

makeOp(op) ==
    CASE op = <<"=">> -> <<"=", "=", "=">>
      [] op = <<"<", ">">> -> <<"!", "=", "=">>
      [] op = <<"&">> -> <<"&", "&">>
      [] op = <<"|">> -> <<"|", "|">>
      [] OTHER -> op

RECURSIVE Gen(_, _, _)

\* list.map(e => e.gen()), from element i on
RECURSIVE GenAll(_, _, _, _)
GenAll(ns, base, i, gs) ==
    IF i > Len(ns) \/ GRaised(gs) THEN gs
    ELSE GenAll(ns, base, i + 1, Gen(ns[i], base \o <<i>>, gs))

\* list.map(p => javaScriptId(p)), from element i on
RECURSIVE IdAll(_, _, _, _)
IdAll(ns, base, i, gs) ==
    IF i > Len(ns) THEN gs
    ELSE IdAll(ns, base, i + 1,
               javaScriptId(gs, base \o <<i>>, IdOf(ns[i]), base \o <<i>>, base \o <<i>>))

ArrayExpression_gen(n, p, gs) ==
    LET g1 == Gen(n.size, p \o <<2>>, gs)
    IN IF GRaised(g1) THEN g1 ELSE GThrow(g1, TypeError)   \* this.elements.gen()

AssignmentStatement_gen(n, p, gs) ==
    LET g1 == Gen(n.target, p \o <<2>>, gs)
    IN IF GRaised(g1) THEN g1 ELSE Gen(n.source, p \o <<1>>, g1)

BinaryExpression_gen(n, p, gs) ==
    LET g1 == Gen(n.left, p \o <<1>>, gs)
    IN IF GRaised(g1) THEN g1 ELSE Gen(n.right, p \o <<2>>, g1)

\* the entity a property that analysis replaced by a declaration now holds
Referenced(p) == IF p \in DOMAIN refs THEN refs[p] ELSE NoDecl
EntityId(d) == IF d \in DOMAIN ents THEN IdOf(ents[d]) ELSE "undefined"

CallExpression_gen(n, p, gs) ==
    LET g1 == GenAll(n.args, p \o <<1>>, 1, gs)
    IN IF GRaised(g1) THEN g1
       ELSE javaScriptId(g1, Referenced(p), EntityId(Referenced(p)), p, Referenced(p))

Field_gen(n, p, gs) == Gen(n.value, p \o <<1>>, javaScriptId(gs, p, IdOf(n), p, p))

ForStatement_gen(n, p, gs) ==
    LET g1 == GenAll(n.body, p \o <<4>>, 1, gs)
    IN IF GRaised(g1) THEN g1 ELSE GThrow(g1, TypeError)   \* this.assignments.gen()

Func_gen(n, p, gs) ==
    LET g1 == javaScriptId(gs, p, IdOf(n), p, p)
        g2 == IdAll(n.parameters, p \o <<1>>, 1, g1)
    IN GenAll(n.body, p \o <<2>>, 1, g2)

GifStatement_gen(n, p, gs) ==
    IF "alternate" \in DOMAIN n THEN GThrow(gs, TypeError)   \* this.alternate.gen()
    ELSE GThrow(gs, ReferenceError)                          \* test.gen()

IdExp_gen(n, p, gs) ==
    javaScriptId(gs, Referenced(p), EntityId(Referenced(p)), p, Referenced(p))

Literal_gen(n, p, gs) == gs

MemberExpression_gen(n, p, gs) ==
    LET g1 == Gen(n.object, p \o <<1>>, gs)
    IN IF GRaised(g1) THEN g1
       ELSE javaScriptId(g1, p, IdOf(n), p, Referenced(p \o <<2>>))

Method_gen(n, p, gs) ==
    LET g1 == javaScriptId(gs, p, IdOf(n), p, p)
    IN IF "params" \notin DOMAIN n THEN GThrow(g1, TypeError)   \* undefined.map
       ELSE GenAll(n.body, p \o <<2>>, 1, IdAll(n.params, p \o <<1>>, 1, g1))

ObjectExp_gen(n, p, gs) == GenAll(n.properties, p \o <<1>>, 1, gs)

Parameter_gen(n, p, gs) == javaScriptId(gs, p, IdOf(n), p, p)

ReturnStatement_gen(n, p, gs) == Gen(n.returnValue, p \o <<1>>, gs)

ThrowStatement_gen(n, p, gs) == gs

VariableDeclaration_gen(n, p, gs) ==
    LET g1 == javaScriptId(gs, p, IdOf(n), p, p)
    IN IF "initializer" \notin DOMAIN n THEN GThrow(g1, TypeError)   \* undefined.gen()
       ELSE Gen(n.initializer, p \o <<2>>, g1)

WhileStatement_gen(n, p, gs) ==
    LET g1 == GenAll(n.body, p \o <<2>>, 1, gs)
    IN IF GRaised(g1) THEN g1 ELSE Gen(n.test, p \o <<1>>, g1)

\* node.gen(): dispatch on the node's constructor
Gen(n, p, gs) ==
    CASE n.kind = "ArrayExpression" -> ArrayExpression_gen(n, p, gs)
      [] n.kind = "AssignmentStatement" -> AssignmentStatement_gen(n, p, gs)
      [] n.kind = "BinaryExpression" -> BinaryExpression_gen(n, p, gs)
      [] n.kind = "CallExpression" -> CallExpression_gen(n, p, gs)
      [] n.kind = "Field" -> Field_gen(n, p, gs)
      [] n.kind = "ForStatement" -> ForStatement_gen(n, p, gs)
      [] n.kind = "Func" -> Func_gen(n, p, gs)
      [] n.kind = "GifStatement" -> GifStatement_gen(n, p, gs)
      [] n.kind = "IdExp" -> IdExp_gen(n, p, gs)
      [] n.kind = "Literal" -> Literal_gen(n, p, gs)
      [] n.kind = "MemberExpression" -> MemberExpression_gen(n, p, gs)
      [] n.kind = "Method" -> Method_gen(n, p, gs)
      [] n.kind = "ObjectExp" -> ObjectExp_gen(n, p, gs)
      [] n.kind = "Parameter" -> Parameter_gen(n, p, gs)
      [] n.kind = "ReturnStatement" -> ReturnStatement_gen(n, p, gs)
      [] n.kind = "ThrowStatement" -> ThrowStatement_gen(n, p, gs)
      [] n.kind = "VariableDeclaration" -> VariableDeclaration_gen(n, p, gs)
      [] n.kind = "WhileStatement" -> WhileStatement_gen(n, p, gs)
      [] OTHER -> GThrow(gs, TypeError)

(***************************************************************************)
(* AST nodes, with the properties the analyzer and the generator read.     *)
(***************************************************************************)
Literal(t) == [kind |-> "Literal", type |-> Str(t), value |-> "v"]
IdExp(id) == [kind |-> "IdExp", reference |-> id]
BinaryExpression(op, l, r) == [kind |-> "BinaryExpression", op |-> op, left |-> l, right |-> r]
AssignmentStatement(t, e) == [kind |-> "AssignmentStatement", target |-> t, source |-> e]
CallExpression(f, args) == [kind |-> "CallExpression", callee |-> f, args |-> args]
VariableDeclaration(id, t, ro, e) ==
    [kind |-> "VariableDeclaration", id |-> id, type |-> t, readOnly |-> ro, initializer |-> e]
VariableDeclarationNoInit(id, t, ro) ==
    [kind |-> "VariableDeclaration", id |-> id, type |-> t, readOnly |-> ro]
Parameter(id, t) == [kind |-> "Parameter", id |-> id, type |-> t]
Func(id, ps, body) == [kind |-> "Func", id |-> id, parameters |-> ps, body |-> body]
Method(id, ps, body) == [kind |-> "Method", id |-> id, parameters |-> ps, body |-> body]
Field(id, t, e) == [kind |-> "Field", id |-> id, type |-> t, value |-> e]
ObjectExp(props) == [kind |-> "ObjectExp", properties |-> props]
\* an object literal the parser has tagged with the type name 'object'
ObjectExpTyped(props) == [kind |-> "ObjectExp", properties |-> props, type |-> Str("object")]
\* a property given as a bare name (o.f), as opposed to an index expression (a[i])
Name(id) == [kind |-> "Name", id |-> id]
MemberExpression(o, prop) == [kind |-> "MemberExpression", object |-> o, property |-> prop]
GifStatement(tests, cons) == [kind |-> "GifStatement", tests |-> tests, consequents |-> cons]
GifStatementElse(tests, cons, alt) ==
    [kind |-> "GifStatement", tests |-> tests, consequents |-> cons, alternate |-> alt]
WhileStatement(test, body) == [kind |-> "WhileStatement", test |-> test, body |-> body]
ForStatement(as, test, action, body) ==
    [kind |-> "ForStatement", assignments |-> as, test |-> test, action |-> action, body |-> body]
ReturnStatement(e) == [kind |-> "ReturnStatement", returnValue |-> e]
ThrowStatement(e) == [kind |-> "ThrowStatement", error |-> e]
ArrayExpression(t, size, elems) ==
    [kind |-> "ArrayExpression", type |-> t, size |-> size, elements |-> elems]

(***************************************************************************)
(* The programs analyzed.                                                  *)
(***************************************************************************)
LiteralKinds ==
    {"array_of_chars", "whole_number", "not_whole_number", "true_or_false", "temp", "object"}
Literals == {Literal(t) : t \in LiteralKinds}

Ops == {<<"-">>, <<"+">>, <<"*">>, <<"/">>, <<"<">>, <<">">>, <<"|", "|">>,
        <<"&", "&">>, <<"=">>, <<"<", ">">>, <<"&">>, <<"|">>}

\* every sequence over S of length at most n
SeqsUpTo(S, n) == UNION {[1..k -> S] : k \in 0..n}

BinaryPrograms ==
    {<<BinaryExpression(op, l, r)>> : op \in Ops, l \in Literals, r \in Literals}
    \cup {<<VariableDeclarationNoInit("r", RecordTypeOf("R1"), FALSE),
            VariableDeclarationNoInit("s", t, FALSE),
            BinaryExpression(op, IdExp("r"), IdExp("s"))>> :
              op \in Ops, t \in RecordTypes \cup {Str("whole_number")}}
    \cup {<<Func("f", <<>>, <<>>),
            BinaryExpression(op, CallExpression("f", <<>>), CallExpression("f", <<>>))>> :
              op \in Ops}

DeclKinds == {"array_of_chars", "whole_number", "not_whole_number", "true_or_false"}

AssignmentPrograms ==
    {<<VariableDeclaration("x", Str(t), ro, Literal(t)),
       AssignmentStatement(IdExp("x"), Literal(u))>> :
         t \in DeclKinds, ro \in BOOLEAN, u \in DeclKinds \cup {"temp"}}
    \cup {<<VariableDeclarationNoInit("x", t, ro),
            AssignmentStatement(IdExp("x"), Literal("temp"))>> :
              t \in RecordTypes, ro \in BOOLEAN}
    \cup {<<AssignmentStatement(IdExp("x"), Literal("whole_number"))>>}

ParamKinds == {"whole_number", "array_of_chars"}
ParamNames == <<"a", "b", "c", "d">>
ArgKinds == {"whole_number", "array_of_chars", "temp"}

CallPrograms ==
    {<<Func("f", [i \in 1..Len(ps) |-> Parameter(ParamNames[i], Str(ps[i]))], <<>>),
       CallExpression("f", [i \in 1..Len(as) |-> Literal(as[i])])>> :
         ps \in SeqsUpTo(ParamKinds, MaxArgs), as \in SeqsUpTo(ArgKinds, MaxArgs)}
    \cup {<<Func("f", <<Parameter("a", Str("whole_number"))>>, <<>>),
            CallExpression("f", <<IdExp("nope")>>)>>,
          <<Func("f", <<Parameter("a", RecordTypeOf("R1"))>>, <<>>),
            CallExpression("f", <<Literal("temp")>>)>>}
    \cup {<<d, CallExpression("f", as)>> :
            d \in {VariableDeclaration("f", Str("whole_number"), FALSE, Literal("whole_number")),
                   Method("f", <<>>, <<>>),
                   Func("g", <<>>, <<>>)},
            as \in {<<>>, <<Literal("whole_number")>>}}

BoolTests == {Literal("true_or_false"), Literal("whole_number"),
              BinaryExpression(<<"=">>, Literal("whole_number"), Literal("whole_number"))}
BranchNames == <<"y1", "y2", "y3">>
Branch(i) ==
    <<VariableDeclaration(BranchNames[i], Str("whole_number"), FALSE, Literal("whole_number")),
      IdExp(BranchNames[i])>>
ElseBranch ==
    <<VariableDeclaration("z", Str("whole_number"), FALSE, Literal("whole_number")), IdExp("z")>>

GifPrograms ==
    {<<GifStatement(ts, [i \in 1..Len(ts) |-> Branch(i)]), IdExp(u)>> :
        ts \in SeqsUpTo(BoolTests, MaxArgs) \ {<<>>}, u \in {"y1", "z"}}
    \cup {<<GifStatementElse(ts, [i \in 1..Len(ts) |-> Branch(i)], ElseBranch), IdExp(u)>> :
            ts \in SeqsUpTo(BoolTests, MaxArgs) \ {<<>>}, u \in {"y1", "z"}}

\* a body that declares y and uses it, and may use a name x of the enclosing scope
BodyOf(t, useOuter) ==
    <<VariableDeclaration("y", Str(t), FALSE, Literal(t)), IdExp("y")>>
    \o (IF useOuter THEN <<IdExp("x")>> ELSE <<>>)
Induction ==
    VariableDeclaration("i", Str("whole_number"), TRUE, Literal("whole_number"))
Step ==
    AssignmentStatement(IdExp("i"),
        BinaryExpression(<<"+">>, IdExp("i"), Literal("whole_number")))
Scoped(c, inner, test, useOuter) ==
    CASE c = "while" -> WhileStatement(test, BodyOf(inner, useOuter))
      [] c = "for" -> ForStatement(<<Induction>>, test, Step, BodyOf(inner, useOuter))
      [] c = "func" -> Func("f", <<Parameter("a", Str("whole_number"))>>,
                            BodyOf(inner, useOuter) \o <<IdExp("a")>>)
      [] c = "method" -> Method("f", <<Parameter("a", Str("whole_number"))>>,
                                BodyOf(inner, useOuter) \o <<IdExp("a")>>)
      [] c = "object" ->
           VariableDeclaration("o", Str("object"), FALSE,
               ObjectExpTyped(<<Field("y", Str(inner), Literal(inner)),
                                Field("w", Str(inner), IdExp("y"))>>
                              \o (IF useOuter
                                  THEN <<Field("v", Str("whole_number"), IdExp("x"))>>
                                  ELSE <<>>)))
Constructs == {"while", "for", "func", "method", "object"}

ScopePrograms ==
    \* the body's y, then a use of `after` once the body has ended
    {<<Scoped(c, "whole_number", t, FALSE), IdExp(after)>> :
        c \in Constructs, t \in BoolTests, after \in {"y", "a", "i"}}
    \* an outer x, used in the body and after it
    \cup {<<VariableDeclaration("x", Str("whole_number"), FALSE, Literal("whole_number")),
            Scoped(c, "whole_number", t, TRUE), IdExp("x")>> :
            c \in Constructs, t \in BoolTests}
    \* an outer y shadowed by the body's y, and found again after the body
    \cup {<<VariableDeclaration("y", Str("array_of_chars"), FALSE, Literal("array_of_chars")),
            Scoped(c, "whole_number", t, FALSE), IdExp("y")>> :
            c \in Constructs, t \in BoolTests}
    \* an outer a shadowed by the parameter a
    \cup {<<VariableDeclaration("a", Str("array_of_chars"), FALSE, Literal("array_of_chars")),
            Scoped(c, "whole_number", Literal("true_or_false"), FALSE), IdExp("a")>> :
            c \in {"func", "method"}}

IntArray == ArrayTypeOf("A1", Str("whole_number"))

\* if true then 1 else 2
IfTrueThenElse ==
    GifStatementElse(<<Literal("true_or_false")>>, <<(<<Literal("whole_number")>>)>>,
                     <<Literal("whole_number")>>)

OtherPrograms ==
    {<<VariableDeclarationNoInit("x", Str(t), FALSE), IdExp("x")>> : t \in DeclKinds}
    \cup {<<ReturnStatement(e)>> : e \in Literals \cup {IdExp("x")}}
    \cup {<<ThrowStatement(e)>> : e \in Literals \cup {IdExp("x")}}
    \cup {<<Method("m", <<>>, <<ReturnStatement(Literal("whole_number"))>>)>>,
          <<Func("f", <<>>, <<ReturnStatement(Literal("whole_number"))>>),
            CallExpression("f", <<>>)>>,
          <<Func("f", <<>>, <<CallExpression("f", <<>>)>>)>>,
          <<IfTrueThenElse>>,
          <<Func("f", <<>>, <<IdExp("nope"),
                              VariableDeclaration("y", Str("whole_number"), FALSE,
                                                  Literal("whole_number"))>>),
            IdExp("f")>>,
          <<ArrayExpression(IntArray, Literal("whole_number"), <<Literal("whole_number")>>)>>,
          <<VariableDeclarationNoInit("arr", IntArray, FALSE)>>,
          <<VariableDeclaration("arr", IntArray, FALSE,
                ArrayExpression(IntArray, Literal("whole_number"), <<Literal("whole_number")>>))>>}
    \cup {<<Func("f", <<Parameter("arr", IntArray)>>,
                 <<MemberExpression(IdExp("arr"), e)>>)>> : e \in Literals \cup {Name("f")}}
    \cup {<<VariableDeclaration("o", Str("object"), FALSE, ob),
            MemberExpression(IdExp("o"), Name(f)),
            MemberExpression(IdExp("o"), Name(f))>> :
             ob \in {ObjectExp(<<Field("f", Str("whole_number"), Literal("whole_number"))>>),
                     ObjectExpTyped(<<Field("f", Str("whole_number"), Literal("whole_number"))>>)},
             f \in {"f", "g"}}
    \cup {<<VariableDeclaration("o", Str("object"), FALSE,
                 ObjectExpTyped(<<Field("f", Str("whole_number"), Literal("whole_number")),
                                  Field("f", Str("whole_number"), Literal("whole_number"))>>))>>,
          <<VariableDeclaration("n", Str("whole_number"), FALSE, Literal("whole_number")),
            MemberExpression(IdExp("n"), Name("f"))>>,
          <<MemberExpression(Literal("whole_number"), Name("f"))>>,
          <<VariableDeclaration("o", Str("object"), FALSE,
                 ObjectExpTyped(<<Field("f", Str("whole_number"), Literal("whole_number"))>>)),
            AssignmentStatement(MemberExpression(IdExp("o"), Name("f")),
                                Literal("whole_number"))>>}

Programs ==
    BinaryPrograms \cup AssignmentPrograms \cup CallPrograms \cup GifPrograms
    \cup ScopePrograms \cup OtherPrograms

(***************************************************************************)
(* The driver (compile): each statement of the program is analyzed in the  *)
(* global Context; an error thrown ends the compilation; a program         *)
(* analyzed without error is then generated, statement by statement.       *)
(***************************************************************************)
GlobalContext == [parent |-> 0, kind |-> "global", owner |-> NoDecl, decls |-> <<>>]
NoCheck == [fn |-> "none"]

Cur == [ctxs |-> ctxs, types |-> types, refs |-> refs, octx |-> octx, ents |-> ents,
        errs |-> errs, clock |-> clock, seen |-> seen]
GCur == [lastId |-> lastId, idmap |-> idmap, rendered |-> rendered, gerr |-> gerr]

Init ==
    /\ prog \in Programs
    /\ phase = "analyze"
    /\ pc = 1
    /\ ctxs = <<GlobalContext>>
    /\ types = <<>>
    /\ refs = <<>>
    /\ octx = <<>>
    /\ ents = <<>>
    /\ errs = <<>>
    /\ clock = 0
    /\ seen = {}
    /\ lastId = 0
    /\ idmap = <<>>
    /\ rendered = {}
    /\ gerr = NoError
    /\ chk = NoCheck

\* an error thrown by analyze leaves compile: nothing catches it
Aborted == errs # <<>>

AnalyzeStatement ==
    /\ phase = "analyze"
    /\ ~Aborted
    /\ pc <= Len(prog)
    /\ LET s == Analyze(prog[pc], <<pc>>, 1, Cur)
       IN /\ ctxs' = s.ctxs
          /\ types' = s.types
          /\ refs' = s.refs
          /\ octx' = s.octx
          /\ ents' = s.ents
          /\ errs' = s.errs
          /\ clock' = s.clock
          /\ seen' = s.seen
    /\ pc' = pc + 1
    /\ UNCHANGED <<prog, phase, lastId, idmap, rendered, gerr, chk>>

\* analyze(program) returned: generate(program) starts
StartGenerate ==
    /\ phase = "analyze"
    /\ ~Aborted
    /\ pc > Len(prog)
    /\ phase' = "generate"
    /\ pc' = 1
    /\ UNCHANGED <<prog, ctxs, types, refs, octx, ents, errs, clock, seen,
                   lastId, idmap, rendered, gerr, chk>>

GenerateStatement ==
    /\ phase = "generate"
    /\ gerr = NoError
    /\ pc <= Len(prog)
    /\ LET g == Gen(prog[pc], <<pc>>, GCur)
       IN /\ lastId' = g.lastId
          /\ idmap' = g.idmap
          /\ rendered' = g.rendered
          /\ gerr' = g.gerr
    /\ pc' = pc + 1
    /\ UNCHANGED <<prog, phase, ctxs, types, refs, octx, ents, errs, clock, seen, chk>>

Next == AnalyzeStatement \/ StartGenerate \/ GenerateStatement

Spec == Init /\ [][Next]_vars

(***************************************************************************)
(* Direct calls of check.isAssignableTo on every pair of an expression     *)
(* type and a target type.                                                 *)
(***************************************************************************)
InitCheck ==
    /\ chk \in {[fn |-> "isAssignableTo", etype |-> e, type |-> t, result |-> "pending"] :
                  e \in Types \cup {Undefined}, t \in Types}
    /\ prog = <<>>
    /\ phase = "check"
    /\ pc = 1
    /\ ctxs = <<GlobalContext>>
    /\ types = <<>>
    /\ refs = <<>>
    /\ octx = <<>>
    /\ ents = <<>>
    /\ errs = <<>>
    /\ clock = 0
    /\ seen = {}
    /\ lastId = 0
    /\ idmap = <<>>
    /\ rendered = {}
    /\ gerr = NoError

CallIsAssignableTo ==
    /\ phase = "check"
    /\ chk.result = "pending"
    /\ chk' = [chk EXCEPT !.result = isAssignableTo(chk.etype, chk.type)]
    /\ UNCHANGED <<prog, phase, pc, ctxs, types, refs, octx, ents, errs, clock, seen,
                   lastId, idmap, rendered, gerr>>

NextCheck == CallIsAssignableTo

SpecCheck == InitCheck /\ [][NextCheck]_vars

(***************************************************************************)
(* Helpers of the properties                                               *)
(***************************************************************************)
\* the direct children of node n at path p, as [path, node]
ChildrenOf(n, p) ==
    LET list(ns, base) == {[path |-> base \o <<i>>, node |-> ns[i]] : i \in 1..Len(ns)}
        one(m, q) == {[path |-> q, node |-> m]}
    IN CASE n.kind = "ArrayExpression" -> one(n.size, p \o <<2>>) \cup list(n.elements, p \o <<3>>)
         [] n.kind = "AssignmentStatement" -> one(n.source, p \o <<1>>) \cup one(n.target, p \o <<2>>)
         [] n.kind = "BinaryExpression" -> one(n.left, p \o <<1>>) \cup one(n.right, p \o <<2>>)
         [] n.kind = "CallExpression" -> list(n.args, p \o <<1>>)
         [] n.kind = "Field" -> one(n.value, p \o <<1>>)
         [] n.kind = "ForStatement" ->
              list(n.assignments, p \o <<1>>) \cup one(n.test, p \o <<2>>)
              \cup one(n.action, p \o <<3>>) \cup list(n.body, p \o <<4>>)
         [] n.kind \in {"Func", "Method"} ->
              list(n.parameters, p \o <<1>>) \cup list(n.body, p \o <<2>>)
         [] n.kind = "GifStatement" ->
              list(n.tests, p \o <<1>>)
              \cup UNION {list(n.consequents[j], p \o <<2, j>>) : j \in 1..Len(n.consequents)}
              \cup (IF "alternate" \in DOMAIN n THEN list(n.alternate, p \o <<3>>) ELSE {})
         [] n.kind = "MemberExpression" ->
              one(n.object, p \o <<1>>)
              \cup (IF n.property.kind = "Name" THEN {} ELSE one(n.property, p \o <<2>>))
         [] n.kind = "ObjectExp" -> list(n.properties, p \o <<1>>)
         [] n.kind = "ReturnStatement" -> one(n.returnValue, p \o <<1>>)
         [] n.kind = "ThrowStatement" -> one(n.error, p \o <<1>>)
         [] n.kind = "VariableDeclaration" ->
              IF "initializer" \in DOMAIN n THEN one(n.initializer, p \o <<2>>) ELSE {}
         [] n.kind = "WhileStatement" -> one(n.test, p \o <<1>>) \cup list(n.body, p \o <<2>>)
         [] OTHER -> {}

RECURSIVE NodesOf(_, _)
NodesOf(n, p) ==
    {[path |-> p, node |-> n]} \cup UNION {NodesOf(c.node, c.path) : c \in ChildrenOf(n, p)}

\* every node reachable from the root
AllNodes == UNION {NodesOf(prog[i], <<i>>) : i \in 1..Len(prog)}

AnalysisDone == phase = "generate" \/ (phase = "analyze" /\ pc > Len(prog))

\* the type a literal has by the language's rules
LiteralType(e) == getType(e.type)

Analyzed(k) == phase = "generate" \/ (phase = "analyze" /\ pc > k)
ErrIs(m) == Len(errs) = 1 /\ errs[1].msg = m
Numeric(t) == t \in {IntType, FloatType}
\* assignability as the language defines it
Assignable(e, t) == e = t \/ (e = NullType /\ t \in RecordTypes)
\* the type of a test expression of the programs above, by the language's rules
StaticType(e) == IF e.kind = "Literal" THEN LiteralType(e) ELSE BoolType

(***************************************************************************)
(* C1 (as claimed): in one generation run, two distinct declarations that  *)
(* share a source name are never rendered with the same identifier, and    *)
(* all renderings of one declaration (at its definition, at an IdExp, a    *)
(* CallExpression or a MemberExpression that refers to it) are the same    *)
(* string.                                                                 *)
(***************************************************************************)
C1_IdentifierUniqueness ==
    \A r1, r2 \in rendered :
        (r1.decl # NoDecl /\ r2.decl # NoDecl) =>
            /\ r1.decl = r2.decl => r1.text = r2.text
            /\ (r1.decl # r2.decl /\ EntityId(r1.decl) = EntityId(r2.decl))
                  => r1.text # r2.text

\* a field is rendered at its definition and at a MemberExpression that refers to it
C1_Reached ==
    \E r1, r2 \in rendered :
        /\ r1.decl = r2.decl /\ r1.decl # NoDecl
        /\ r1.site = r1.decl
        /\ r2.site # r2.decl

(***************************************************************************)
(* C2: check.isAssignableTo passes exactly when the target type is the     *)
(* expression's own type (reflexivity, for primitive, array and record     *)
(* types) or the expression has Null type and the target is a RecordType;  *)
(* in particular Null against Int, Float, String or Bool fails, and so     *)
(* does every other pair of different types.                               *)
(***************************************************************************)
C2_Assignability ==
    (chk.fn = "isAssignableTo" /\ chk.result # "pending") =>
        /\ (chk.result = NoError) <=>
              (chk.etype = chk.type \/ (chk.etype = NullType /\ chk.type \in RecordTypes))
        /\ (chk.etype = NullType /\ chk.type \in PrimitiveTypes \ {NullType})
              => chk.result # NoError

C2_Reached ==
    /\ chk.fn = "isAssignableTo"
    /\ chk.etype = NullType
    /\ chk.type \in RecordTypes
    /\ chk.result = NoError

WellTypedPrograms ==
    {<<VariableDeclaration("x", Str(t), FALSE, Literal(t)),
       AssignmentStatement(IdExp("x"), Literal(t))>> : t \in DeclKinds}
    \cup {<<BinaryExpression(op, l, r)>> :
            op \in {<<"-">>, <<"+">>, <<"*">>, <<"/">>},
            l \in {Literal("whole_number"), Literal("not_whole_number")},
            r \in {Literal("whole_number"), Literal("not_whole_number")}}
    \cup {<<VariableDeclaration("x", Str("whole_number"), FALSE, Literal("whole_number")),
            Scoped(c, "whole_number", Literal("true_or_false"), TRUE), IdExp("x")>> :
            c \in Constructs}
    \cup {<<IfTrueThenElse>>}

(***************************************************************************)
(* C3 (as claimed): for a well-typed program analysis raises no error, and *)
(* once it is done every node reachable from the root carries a non-null   *)
(* type.                                                                   *)
(***************************************************************************)
C3_WellTypedAnalyzes ==
    prog \in WellTypedPrograms =>
        /\ errs = <<>>
        /\ AnalysisDone =>
              \A x \in AllNodes : TypeOf(Cur, x.path, x.node) # Undefined

IsScope(n) ==
    \/ n.kind \in {"WhileStatement", "ForStatement", "Func", "Method"}
    \/ n.kind = "VariableDeclaration" /\ "initializer" \in DOMAIN n
       /\ n.initializer.kind = "ObjectExp"
\* the body's declaration of y and the body's use of it
InnerDecl(n, k) ==
    CASE n.kind = "WhileStatement" -> <<k, 2, 1>>
      [] n.kind = "ForStatement" -> <<k, 4, 1>>
      [] n.kind \in {"Func", "Method"} -> <<k, 2, 1>>
      [] OTHER -> <<k, 2, 1, 1>>
InnerUse(n, k) ==
    CASE n.kind = "WhileStatement" -> <<k, 2, 2>>
      [] n.kind = "ForStatement" -> <<k, 4, 2>>
      [] n.kind \in {"Func", "Method"} -> <<k, 2, 2>>
      [] OTHER -> <<k, 2, 1, 2, 1>>
BoolTested(n) ==
    n.kind \in {"WhileStatement", "ForStatement"} => StaticType(n.test) = BoolType
OuterDecls(k, id) ==
    {j \in 1..(k - 1) : prog[j].kind = "VariableDeclaration" /\ prog[j].id = id}

(***************************************************************************)
(* C5 (as claimed): once a loop with a Bool test, a function, a method or  *)
(* an object literal has been analyzed, the use of a name in its body      *)
(* after the body's declaration of that name is bound to that declaration  *)
(* (also when an outer scope declares the same name), and the use of a     *)
(* function's parameter in its body is bound to the parameter; a use of    *)
(* the name after the body fails with an undeclared-identifier error       *)
(* unless an outer scope declares it, and is then bound to the outer       *)
(* declaration.                                                            *)
(***************************************************************************)
C5_Scoping ==
    (prog \in ScopePrograms) =>
        \A k \in 1..Len(prog) :
            (IsScope(prog[k]) /\ BoolTested(prog[k]) /\ Analyzed(k)) =>
                \* visible inside the body
                /\ Referenced(InnerUse(prog[k], k)) = InnerDecl(prog[k], k)
                \* parameters are bound in the body scope
                /\ prog[k].kind \in {"Func", "Method"} =>
                      Referenced(<<k, 2, Len(prog[k].body)>>) = <<k, 1, 1>>
                \* after the body
                /\ (Analyzed(k + 1) /\ prog[k + 1].reference \in {"y", "a", "i"}) =>
                      IF OuterDecls(k, prog[k + 1].reference) = {}
                      THEN ErrIs("UndeclaredIdentifier")
                      ELSE /\ errs = <<>>
                           /\ Referenced(<<k + 1>>) \in
                                 {<<j>> : j \in OuterDecls(k, prog[k + 1].reference)}

(***************************************************************************)
(* C6 (as claimed): generating a tree that passed the analyzer raises no   *)
(* error.                                                                  *)
(***************************************************************************)
C6_GenerationNeverFails == phase = "generate" => gerr = NoError

ClaimedOps == {<<"-">>, <<"+">>, <<"*">>, <<"/">>, <<"<">>, <<">">>, <<"|", "|">>,
               <<"&", "&">>, <<"=">>, <<"<", ">">>}
ClaimedPass(op, lt, rt) ==
    CASE op \in {<<"-">>, <<"+">>, <<"*">>, <<"/">>, <<"<">>, <<">">>} -> Numeric(lt) /\ Numeric(rt)
      [] op \in {<<"|", "|">>, <<"&", "&">>} -> lt = BoolType /\ rt = BoolType
      [] OTHER -> lt = rt
ClaimedType(op, lt, rt) ==
    IF op \in {<<"-">>, <<"+">>, <<"*">>, <<"/">>}
    THEN (IF lt = FloatType \/ rt = FloatType THEN FloatType ELSE IntType)
    ELSE BoolType

(***************************************************************************)
(* C7 (as claimed): BinaryExpression analysis follows the operator table:  *)
(* - + * / pass iff both operands are numeric, with type Float if either   *)
(* is Float, else Int; < > pass iff both are numeric, with type Bool;      *)
(* || && pass iff both are Bool, with type Bool; = <> pass iff both have   *)
(* exactly the same type, with type Bool.                                  *)
(***************************************************************************)
C7_OperatorTable ==
    (/\ Len(prog) = 1
     /\ prog[1].kind = "BinaryExpression"
     /\ prog[1].op \in ClaimedOps
     /\ prog[1].left.kind = "Literal"
     /\ prog[1].right.kind = "Literal"
     /\ Analyzed(1)) =>
        LET op == prog[1].op
            lt == LiteralType(prog[1].left)
            rt == LiteralType(prog[1].right)
        IN /\ (errs = <<>>) <=> ClaimedPass(op, lt, rt)
           /\ ClaimedPass(op, lt, rt) =>
                 (<<1>> \in DOMAIN types /\ types[<<1>>] = ClaimedType(op, lt, rt))

(***************************************************************************)
(* C8 (as claimed): an assignment to an identifier bound to a read-only    *)
(* declaration fails with 'Assignment to read-only variable', and an       *)
(* assignment to an identifier bound to a mutable declaration whose type   *)
(* is the source's type passes.                                            *)
(***************************************************************************)
C8_Assignment ==
    (/\ Len(prog) = 2
     /\ prog[1].kind = "VariableDeclaration"
     /\ prog[2].kind = "AssignmentStatement"
     /\ prog[2].target = IdExp(prog[1].id)
     /\ prog[2].source.kind = "Literal"
     /\ Analyzed(2)) =>
        /\ prog[1].readOnly => ErrIs("Assignment to read-only variable")
        /\ (~prog[1].readOnly /\ getType(prog[1].type) = LiteralType(prog[2].source))
              => errs = <<>>

IsCall ==
    /\ Len(prog) = 2
    /\ prog[1].kind \in {"VariableDeclaration", "Func", "Method"}
    /\ prog[2].kind = "CallExpression"
    /\ prog[2].callee = prog[1].id
    /\ \A i \in 1..Len(prog[2].args) : prog[2].args[i].kind = "Literal"
    /\ Analyzed(2)
Mismatch(i) ==
    ~Assignable(LiteralType(prog[2].args[i]), getType(prog[1].parameters[i].type))

C10_Conditional ==
    (/\ Len(prog) = 2
     /\ prog[1].kind = "GifStatement"
     /\ phase = "analyze"
     /\ pc = 2) =>
        LET g == prog[1]
            allBool == \A i \in 1..Len(g.tests) : StaticType(g.tests[i]) = BoolType
            branches == {c \in ChildrenOf(g, <<1>>) : c.path[2] \in {2, 3}}
        IN /\ ~allBool => ErrIs("Not a boolean")
           /\ allBool =>
                 /\ errs = <<>>
                 /\ \A c \in branches : c.path \in seen
                 /\ \A c \in branches :
                       c.node.kind = "VariableDeclaration" => Bound(ctxs[1], c.node.id)

====
